---- MODULE Spec2Model ----
(***************************************************************************)
(* Shared-game-state synchronisation and match lifecycle of the Dreamworld *)
(* TCG game tracker: src/src/components/GameTracker.tsx (the session       *)
(* controller of one client) over src/src/services/firebaseData.ts and its *)
(* web variant src/unnamed/part_001 (the game document store).             *)
(*                                                                         *)
(* A JavaScript key that is absent (or undefined) is the value "unset".    *)
(* An object keyed by player id is a sequence of records in key order      *)
(* (Object.keys order = insertion order).  lastUpdated is the store's      *)
(* server timestamp, 0 when the key is absent.  ref names the players map  *)
(* and rounds array a GameState object holds: the shallow copies a handler *)
(* makes ({...gameState}) share both with the state they were copied from, *)
(* so a push or an assignment through one is seen through all of them; a   *)
(* document of the store has ref 0.                                        *)
(*                                                                         *)
(* The store operations a client has issued resolve in the order of issue; *)
(* each may fail.  The build bundles one of the two updateGame variants    *)
(* (platform).  The pass-and-play mode (isLocalMode), which never touches  *)
(* the store, and the unmounting of the component are outside the model.   *)
(***************************************************************************)
EXTENDS Integers, Sequences, FiniteSets, TLC

\* ------------------------------------------------------------------ bounds

\* user actions (handler invocations) in one behaviour that starts at the
\* lobby
MaxActs == 4
\* user actions in one behaviour that starts in the first round of a running
\* game
MaxPlayActs == 3
\* user actions in one behaviour that starts late in a round
MaxEndActs == 2
\* presses of the -5 morale button behind the player who is about to lose
\* the round a behaviour starts late in
NearPresses == 9
\* user actions in one behaviour that starts at a position of play
MaxTurnActs == 1
\* store operations that fail in one behaviour although they could succeed
MaxFails == 1
\* store operations one client may have in flight
MaxInFlight == 2
\* game codes generateGameCode may return
NumCodes == 1
\* createGame invocations in one behaviour
MaxCreates == 1
\* morale stays within StartMorale +/- MaxMoraleDev
MaxMoraleDev == 100
\* energy never exceeds MaxEnergy
MaxEnergy == 10

\* ------------------------------------------------------- program constants

StartMorale == 50
LoseMorale == 0
WinMorale == 100

Users == {"h", "g", "x"}
Pair == {"h", "g"}
Codes == 1..NumCodes
\* the amount the large counter buttons pass to adjustValue
PressAmount == 5
MoraleDeltas == {0 - PressAmount, PressAmount}
EnergyDeltas == {0 - PressAmount, PressAmount}

Null == [null |-> TRUE]
NoDoc == [absent |-> TRUE]

\* --------------------------------------------------------- the state model

NewPlayer(u, host) ==
    [id |-> u, morale |-> StartMorale, energy |-> 0, maxEnergyThisTurn |-> 0,
     isHost |-> host, disconnected |-> "unset",
     lastDisconnect |-> "unset", lastReconnect |-> "unset"]

\* Object.keys(gs.players)
PlayerIds(gs) == [i \in 1..Len(gs.players) |-> gs.players[i].id]

HasPlayer(gs, u) == \E i \in 1..Len(gs.players) : gs.players[i].id = u

\* gs.players[u], for a key u of players
PlayerOf(gs, u) == gs.players[CHOOSE i \in 1..Len(gs.players) : gs.players[i].id = u]

\* players with players[u] = p (same key position; appended when u is new)
PutPlayer(ps, u, p) ==
    IF \E i \in 1..Len(ps) : ps[i].id = u
    THEN [i \in 1..Len(ps) |-> IF ps[i].id = u THEN p ELSE ps[i]]
    ELSE Append(ps, p)

\* ids.indexOf(u), 0-based, -1 when absent
IndexOf(ids, u) ==
    IF \E i \in 1..Len(ids) : ids[i] = u
    THEN (CHOOSE i \in 1..Len(ids) : ids[i] = u /\ \A j \in 1..(i - 1) : ids[j] # u) - 1
    ELSE 0 - 1

\* ids.find(id => id !== u), "unset" (undefined) when there is none
OtherThan(ids, u) ==
    IF \E i \in 1..Len(ids) : ids[i] # u
    THEN ids[CHOOSE i \in 1..Len(ids) : ids[i] # u /\ \A j \in 1..(i - 1) : ids[j] = u]
    ELSE "unset"

\* ids[k] for a 0-based k, "unset" (undefined) past the end
At(ids, k) == IF k + 1 \in 1..Len(ids) THEN ids[k + 1] ELSE "unset"

Max(a, b) == IF a >= b THEN a ELSE b
Abs(a) == IF a >= 0 THEN a ELSE 0 - a

\* a createGame that builds the game already started
NewGameStarted(u, code) ==
    [players |-> <<NewPlayer(u, TRUE)>>, currentTurn |-> 1, currentRound |-> 1,
     priorityPlayerId |-> u, gameStatus |-> "active", winner |-> "unset",
     gameCode |-> code, rounds |-> <<>>, incomplete |-> "unset",
     lastUpdated |-> 0, ref |-> 0]

\* createGame: the GameState the host builds
NewGame(u, code) ==
    [players |-> <<NewPlayer(u, TRUE)>>, currentTurn |-> 1, currentRound |-> 1,
     priorityPlayerId |-> u, gameStatus |-> "setup", winner |-> "unset",
     gameCode |-> code, rounds |-> <<>>, incomplete |-> "unset",
     lastUpdated |-> 0, ref |-> 0]

\* joinGame, new identity: the joined GameState, first being the random pick
\* a join that adds the guest and leaves the status as it was read
JoinedGameNoStart(existing, u, first) ==
    [existing EXCEPT !.players = PutPlayer(existing.players, u, NewPlayer(u, FALSE)),
                     !.priorityPlayerId = first]

JoinedGame(existing, u, first) ==
    [existing EXCEPT !.players = PutPlayer(existing.players, u, NewPlayer(u, FALSE)),
                     !.priorityPlayerId = first,
                     !.gameStatus = "active"]

\* joinGame, known identity: the reconnected GameState
ReconnectedGame(existing, u) ==
    [existing EXCEPT !.players = PutPlayer(existing.players, u,
        [PlayerOf(existing, u) EXCEPT !.disconnected = "no", !.lastReconnect = "set"])]

\* adjustValue: the updated GameState
AdjustedGame(gs, pid, type, amount) ==
    LET player == PlayerOf(gs, pid)
        newEnergy == Max(0, player.energy + amount)
        newPlayer ==
            IF type = "morale"
            THEN [player EXCEPT !.morale = player.morale + amount]
            ELSE [player EXCEPT !.energy = newEnergy,
                                !.maxEnergyThisTurn = Max(player.maxEnergyThisTurn, newEnergy)]
    IN [gs EXCEPT !.players = PutPlayer(gs.players, pid, newPlayer)]

\* ------------------------------------------------------------- nextTurn

HasWin(m) == m <= LoseMorale \/ m >= WinMorale

\* moraleConditions.some(p => p.morale <= 0 || p.morale >= 100)
HasWinCondition(gs) == \E i \in 1..Len(gs.players) : HasWin(gs.players[i].morale)

\* a search that takes the player whose morale is lowest
ZeroMoralePlayerLowest(gs) ==
    IF \E i \in 1..Len(gs.players) : gs.players[i].morale <= LoseMorale
    THEN gs.players[CHOOSE i \in 1..Len(gs.players) :
            /\ gs.players[i].morale <= LoseMorale
            /\ \A j \in 1..Len(gs.players) :
                \/ gs.players[j].morale > gs.players[i].morale
                \/ (gs.players[j].morale = gs.players[i].morale /\ j >= i)].id
    ELSE "unset"

\* moraleConditions.find(p => p.morale <= 0): the first in key order
ZeroMoralePlayer(gs) ==
    IF \E i \in 1..Len(gs.players) : gs.players[i].morale <= LoseMorale
    THEN gs.players[CHOOSE i \in 1..Len(gs.players) :
            /\ gs.players[i].morale <= LoseMorale
            /\ \A j \in 1..(i - 1) : gs.players[j].morale > LoseMorale].id
    ELSE "unset"

\* moraleConditions.find(p => p.morale >= 100): the first in key order
HundredMoralePlayer(gs) ==
    IF \E i \in 1..Len(gs.players) : gs.players[i].morale >= WinMorale
    THEN gs.players[CHOOSE i \in 1..Len(gs.players) :
            /\ gs.players[i].morale >= WinMorale
            /\ \A j \in 1..(i - 1) : gs.players[j].morale < WinMorale].id
    ELSE "unset"

RoundWinner(gs) ==
    IF ZeroMoralePlayer(gs) # "unset"
    THEN OtherThan(PlayerIds(gs), ZeroMoralePlayer(gs))
    ELSE HundredMoralePlayer(gs)

\* a nextTurn that looks for a morale of 100 before it looks for one of 0
RoundEndReasonHundredFirst(gs) ==
    IF HundredMoralePlayer(gs) # "unset" THEN "morale_100_or_above" ELSE "morale_0_or_below"

RoundEndReason(gs) ==
    IF ZeroMoralePlayer(gs) # "unset" THEN "morale_0_or_below" ELSE "morale_100_or_above"

\* the playerMorale snapshot of a RoundResult
MoraleSnapshot(gs) ==
    [i \in 1..Len(gs.players) |-> [id |-> gs.players[i].id, morale |-> gs.players[i].morale]]

RoundResultOf(gs) ==
    [roundNumber |-> gs.currentRound, endTurn |-> gs.currentTurn,
     playerMorale |-> MoraleSnapshot(gs), winner |-> RoundWinner(gs),
     endReason |-> RoundEndReason(gs)]

\* a switch that steps to the next index without wrapping around
NextPriorityIdNoWrap(gs) ==
    LET ids == PlayerIds(gs)
    IN At(ids, IndexOf(ids, gs.priorityPlayerId) + 1)

\* "Switch priority": playerIds[(indexOf(priorityPlayerId) + 1) % length]
NextPriorityId(gs) ==
    LET ids == PlayerIds(gs)
    IN ids[((IndexOf(ids, gs.priorityPlayerId) + 1) % Len(ids)) + 1]

\* Math.abs(r.playerMorale[a] - r.playerMorale[b]); -1 stands for NaN (a key
\* of the snapshot is missing)
MoraleDiff(r, a, b) ==
    LET has(u) == \E i \in 1..Len(r.playerMorale) : r.playerMorale[i].id = u
        val(u) == r.playerMorale[CHOOSE i \in 1..Len(r.playerMorale) :
                                    r.playerMorale[i].id = u].morale
    IN IF has(a) /\ has(b) THEN Abs(val(a) - val(b)) ELSE 0 - 1

\* a > b on numbers where -1 is NaN: every comparison with NaN is false
Greater(a, b) == a >= 0 /\ b >= 0 /\ a > b

\* a finalization where the second round's winner takes an even tie
OverallWinnerTieToSecond(rounds, ids) ==
    LET p1 == At(ids, 0)
        p2 == At(ids, 1)
        player1Wins == Cardinality({k \in 1..Len(rounds) : rounds[k].winner = p1})
        player2Wins == Cardinality({k \in 1..Len(rounds) : rounds[k].winner = p2})
        round1Diff == MoraleDiff(rounds[1], p1, p2)
        round2Diff == MoraleDiff(rounds[2], p1, p2)
    IN IF player1Wins > player2Wins THEN p1
       ELSE IF player2Wins > player1Wins THEN p2
       ELSE IF Greater(round1Diff, round2Diff) THEN rounds[1].winner
       ELSE rounds[2].winner

\* a finalization that gives the match to the player with fewer round wins
OverallWinnerFewerWins(rounds, ids) ==
    LET p1 == At(ids, 0)
        p2 == At(ids, 1)
        player1Wins == Cardinality({k \in 1..Len(rounds) : rounds[k].winner = p1})
        player2Wins == Cardinality({k \in 1..Len(rounds) : rounds[k].winner = p2})
    IN IF player1Wins > player2Wins THEN p2
       ELSE IF player2Wins > player1Wins THEN p1
       ELSE rounds[1].winner

\* "determine overall winner" over rounds (at least two) and playerIds
OverallWinner(rounds, ids) ==
    LET p1 == At(ids, 0)
        p2 == At(ids, 1)
        player1Wins == Cardinality({k \in 1..Len(rounds) : rounds[k].winner = p1})
        player2Wins == Cardinality({k \in 1..Len(rounds) : rounds[k].winner = p2})
        round1Diff == MoraleDiff(rounds[1], p1, p2)
        round2Diff == MoraleDiff(rounds[2], p1, p2)
    IN IF player1Wins > player2Wins THEN p1
       ELSE IF player2Wins > player1Wins THEN p2
       ELSE IF Greater(round1Diff, round2Diff) THEN rounds[1].winner
       ELSE IF Greater(round2Diff, round1Diff) THEN rounds[2].winner
       ELSE rounds[1].winner

\* a turn advancement that leaves the energy as it stands
RegularTurnNoRefill(gs) ==
    [gs EXCEPT !.currentTurn = gs.currentTurn + 1,
               !.priorityPlayerId = NextPriorityId(gs)]

\* "Regular turn advancement"
RegularTurn(gs) ==
    [gs EXCEPT !.players = [i \in 1..Len(gs.players) |->
                    [gs.players[i] EXCEPT !.energy = gs.players[i].maxEnergyThisTurn]],
               !.currentTurn = gs.currentTurn + 1,
               !.priorityPlayerId = NextPriorityId(gs)]

\* an end of the first round that leaves the priority where it is
RoundOneEndKeepsPriority(gs) ==
    [gs EXCEPT !.rounds = Append(gs.rounds, RoundResultOf(gs)),
               !.players = [i \in 1..Len(gs.players) |->
                    [gs.players[i] EXCEPT !.morale = StartMorale, !.energy = 0,
                                          !.maxEnergyThisTurn = 0]],
               !.currentRound = 2,
               !.currentTurn = 1]

\* "End of first round - reset for second round"
RoundOneEnd(gs) ==
    [gs EXCEPT !.rounds = Append(gs.rounds, RoundResultOf(gs)),
               !.players = [i \in 1..Len(gs.players) |->
                    [gs.players[i] EXCEPT !.morale = StartMorale, !.energy = 0,
                                          !.maxEnergyThisTurn = 0]],
               !.currentRound = 2,
               !.currentTurn = 1,
               !.priorityPlayerId = NextPriorityId(gs)]

\* an end of the second round that resets the counters as the first does
RoundTwoEndReset(gs) ==
    LET rs == Append(gs.rounds, RoundResultOf(gs))
    IN [gs EXCEPT !.rounds = rs,
                  !.players = [i \in 1..Len(gs.players) |->
                        [gs.players[i] EXCEPT !.morale = StartMorale, !.energy = 0,
                                              !.maxEnergyThisTurn = 0]],
                  !.winner = OverallWinner(rs, PlayerIds(gs)),
                  !.gameStatus = "ended"]

\* "End of second round - determine overall winner and save match"
RoundTwoEnd(gs) ==
    LET rs == Append(gs.rounds, RoundResultOf(gs))
    IN [gs EXCEPT !.rounds = rs,
                  !.winner = OverallWinner(rs, PlayerIds(gs)),
                  !.gameStatus = "ended"]

\* nextTurn: the updated GameState
NextTurnGame(gs) ==
    IF ~HasWinCondition(gs) THEN RegularTurn(gs)
    ELSE IF gs.currentRound = 1 THEN RoundOneEnd(gs)
    ELSE RoundTwoEnd(gs)

\* --------------------------------------------------- surrender and exit

\* confirmSurrender: the updated GameState, opponentId being defined
\* a surrender that lets a standing win condition decide the round
SurrenderedGameChecked(gs, u) ==
    LET opponentId == IF HasWinCondition(gs) THEN RoundWinner(gs)
                      ELSE OtherThan(PlayerIds(gs), u)
        surrenderRound == [roundNumber |-> gs.currentRound, endTurn |-> gs.currentTurn,
                           playerMorale |-> MoraleSnapshot(gs), winner |-> opponentId,
                           endReason |-> "surrender"]
    IN [gs EXCEPT !.rounds = Append(gs.rounds, surrenderRound),
                  !.winner = opponentId,
                  !.gameStatus = "ended"]

SurrenderedGame(gs, u) ==
    LET opponentId == OtherThan(PlayerIds(gs), u)
        surrenderRound == [roundNumber |-> gs.currentRound, endTurn |-> gs.currentTurn,
                           playerMorale |-> MoraleSnapshot(gs), winner |-> opponentId,
                           endReason |-> "surrender"]
    IN [gs EXCEPT !.rounds = Append(gs.rounds, surrenderRound),
                  !.winner = opponentId,
                  !.gameStatus = "ended"]

\* exitGame: "Mark player as disconnected in game state"
DisconnectedGame(gs, u) ==
    IF HasPlayer(gs, u)
    THEN [gs EXCEPT !.players = PutPlayer(gs.players, u,
            [PlayerOf(gs, u) EXCEPT !.disconnected = "yes", !.lastDisconnect = "set"])]
    ELSE gs

\* Object.values(players).every(player => player.disconnected)
AllDisconnected(gs) == \A i \in 1..Len(gs.players) : gs.players[i].disconnected = "yes"

\* exitGame ends the match as incomplete
ForceEnds(gs, u) ==
    AllDisconnected(DisconnectedGame(gs, u)) /\ gs.gameStatus = "active"

\* exitGame: the updated GameState
ExitedGame(gs, u) ==
    IF ForceEnds(gs, u)
    THEN [DisconnectedGame(gs, u) EXCEPT !.gameStatus = "ended",
                                         !.winner = "incomplete",
                                         !.incomplete = "yes"]
    ELSE DisconnectedGame(gs, u)

\* the MatchResult the three ending paths build; id is gameCode_Date.now(),
\* t standing for the clock reading
MatchResultOf(gs, winner, winType, t, by) ==
    [id |-> <<gs.gameCode, t>>, gameCode |-> gs.gameCode, players |-> PlayerIds(gs),
     rounds |-> gs.rounds, winner |-> winner, winType |-> winType,
     incomplete |-> IF winType = "incomplete" THEN "yes" ELSE "unset",
     createdBy |-> by]

\* ------------------------------------------------------------ the store

\* a field the write does not name keeps the document's value
MergeField(old, new) == IF new = "unset" THEN old ELSE new

\* a write that carries an undefined value (a round without a winner) is
\* rejected by the store
Writable(gs) == \A k \in 1..Len(gs.rounds) : gs.rounds[k].winner # "unset"

\* createGame of the service: setDoc without merge, the whole document
CreateDoc(gs, t) == [gs EXCEPT !.lastUpdated = t, !.ref = 0]

\* updateGame of firebaseData.ts: updateDoc replaces every named top-level
\* field, the players map included
UpdateDocNative(doc, gs, t) ==
    [gs EXCEPT !.winner = MergeField(doc.winner, gs.winner),
               !.incomplete = MergeField(doc.incomplete, gs.incomplete),
               !.lastUpdated = t,
               !.ref = 0]

MergePlayer(old, new) ==
    [new EXCEPT !.disconnected = MergeField(old.disconnected, new.disconnected),
                !.lastDisconnect = MergeField(old.lastDisconnect, new.lastDisconnect),
                !.lastReconnect = MergeField(old.lastReconnect, new.lastReconnect)]

\* a map merged into a map: the document's keys stay, the write's are added
MergePlayers(oldps, newps) ==
    LET kept == [i \in 1..Len(oldps) |->
                    IF \E j \in 1..Len(newps) : newps[j].id = oldps[i].id
                    THEN MergePlayer(oldps[i],
                            newps[CHOOSE j \in 1..Len(newps) : newps[j].id = oldps[i].id])
                    ELSE oldps[i]]
        isNew(p) == \A i \in 1..Len(oldps) : oldps[i].id # p.id
    IN kept \o SelectSeq(newps, isNew)

\* updateGame of the web variant: setDoc with merge: true
UpdateDocWeb(doc, gs, t) ==
    IF doc = NoDoc THEN [gs EXCEPT !.lastUpdated = t, !.ref = 0]
    ELSE [UpdateDocNative(doc, gs, t) EXCEPT !.players = MergePlayers(doc.players, gs.players)]

\* updateGame can succeed: updateDoc needs an existing document
CanUpdate(plat, doc, gs) == Writable(gs) /\ (plat = "web" \/ doc # NoDoc)

\* updateGame: the document after a successful write
UpdateGame(plat, doc, gs, t) ==
    IF plat = "web" THEN UpdateDocWeb(doc, gs, t) ELSE UpdateDocNative(doc, gs, t)

\* saveMatchResult can succeed: the record carries no undefined value
Savable(rec) ==
    /\ rec.winner # "unset"
    /\ \A k \in 1..Len(rec.rounds) : rec.rounds[k].winner # "unset"

\* saveMatchResult: setDoc under the record's id
SaveMatch(ms, rec) == {m \in ms : m.id # rec.id} \cup {rec}

\* ------------------------------------------------------------- variables

VARIABLES
    platform,    \* which updateGame the build bundles: "native" or "web"
    games,       \* the games collection: code -> document or NoDoc
    matches,     \* the matches collection: the set of persisted MatchResults
    serverTime,  \* the store's clock behind serverTimestamp()
    local,       \* per client: the gameState of the component, or Null
    queue,       \* per client: the store operations in flight, oldest first,
                 \* each with what its handler does when it resolves
    subs,        \* per client: dep (the gameCode the subscription effect last
                 \* ran for, 0 for none), handle (gameSubscription, 0 for
                 \* null) and listeners (the registered onSnapshot callbacks)
    left,        \* user actions left in this behaviour
    creates,     \* createGame invocations so far
    fails        \* store operations that failed although they could succeed

vars == <<platform, games, matches, serverTime, local, queue, subs, left, creates, fails>>

CodeOf(l) == IF l = Null THEN 0 ELSE l.gameCode

Task(op, code, gs, rec, handle) ==
    [op |-> op, code |-> code, gs |-> gs, rec |-> rec, handle |-> handle]

\* the smallest positive number outside used
Fresh(used) == CHOOSE n \in 1..(Cardinality(used) + 1) :
                    n \notin used /\ \A m \in 1..(n - 1) : m \in used

\* the refs held by the handlers of client c that are still awaiting and by
\* the snapshot callbacks it has registered
RefsInFlight(c) ==
    {queue[c][i].gs.ref : i \in {j \in 1..Len(queue[c]) : queue[c][j].gs # Null}}
        \cup {l.captured.ref : l \in subs[c].listeners}

\* a ref for a GameState object that replaces the local state of client c
\* (built by createGame, or from a snapshot)
FreshRef(c) == Fresh(RefsInFlight(c))

\* a ref for a GameState object built from a read at client c
FreshReadRef(c) ==
    Fresh(RefsInFlight(c) \cup (IF local[c] = Null THEN {} ELSE {local[c].ref}))

\* Date.now() of a MatchResult id: two readings differ, so the reading is
\* named by the smallest number no other MatchResult carries
ClockReading ==
    Fresh({m.id[2] : m \in matches} \cup
          UNION {{queue[d][i].rec.id[2] :
                    i \in {j \in 1..Len(queue[d]) : queue[d][j].rec # Null}} : d \in Users})

\* the handle called: its listener is removed from the store
Unsub(ls, k) == {l \in ls : l.lid # k}

\* every GameState object of a handler still awaiting that shares players
\* and rounds with gs sees what was assigned or pushed through gs
Share(q, gs) ==
    [i \in 1..Len(q) |->
        IF q[i].gs # Null /\ q[i].gs.ref = gs.ref
        THEN [q[i] EXCEPT !.gs.players = gs.players, !.gs.rounds = gs.rounds]
        ELSE q[i]]

\* the gameState a snapshot callback closed over shares players and rounds
\* with gs as well
ShareCaptured(sub, gs) ==
    [sub EXCEPT !.listeners =
        {IF l.captured.ref = gs.ref
         THEN [l EXCEPT !.captured.players = gs.players, !.captured.rounds = gs.rounds]
         ELSE l : l \in @}]

\* the subscription effect (deps [gameState?.gameCode]) after a render with
\* gameState = l: the current handle is called, subscribeToGame registers the
\* callback (the store delivers a first snapshot) and gameSubscription is set
\* to its unsubscribe handle.  The firebase instance is cached by then, so
\* subscribeToGame returns without waiting for the network: the effect and
\* its continuation run before any other event.
RunEffect(sub, l) ==
    IF CodeOf(l) = sub.dep THEN sub
    ELSE IF l = Null THEN [sub EXCEPT !.dep = 0]
    ELSE LET lid == Fresh({x.lid : x \in sub.listeners} \cup {sub.handle})
         IN [sub EXCEPT !.dep = l.gameCode,
                        !.listeners = Unsub(@, sub.handle) \cup
                            {[lid |-> lid, code |-> l.gameCode,
                              captured |-> l, dirty |-> TRUE]},
                        !.handle = lid]

\* the document under code changed: its listeners have a snapshot to deliver
MarkDirty(sub, code) ==
    [sub EXCEPT !.listeners = {[l EXCEPT !.dirty = (l.dirty \/ l.code = code)] : l \in @}]

\* subs after a step in which the document under code changed (code 0: no
\* document changed) and client c rendered with gameState = l
SubsAfter(code, c, l) ==
    [d \in Users |->
        LET s == IF code # 0 THEN MarkDirty(subs[d], code) ELSE subs[d]
        IN IF d = c THEN RunEffect(s, l) ELSE s]

\* ----------------------------------------------------------- initial states

\* the app as constructed: nobody has created or joined a game
InitLobby ==
    /\ platform \in {"native", "web"}
    /\ games = [k \in Codes |-> NoDoc]
    /\ matches = {}
    /\ serverTime = 0
    /\ local = [c \in Users |-> Null]
    /\ queue = [c \in Users |-> <<>>]
    /\ subs = [c \in Users |-> [dep |-> 0, handle |-> 0, listeners |-> {}]]
    /\ left = MaxActs
    /\ creates = 0
    /\ fails = 0

\* the document after h created the game under code 1 and g joined it, first
\* being the random pick of joinGame
ActiveDoc(plat, first) ==
    UpdateGame(plat, CreateDoc(NewGame("h", 1), 1),
               JoinedGame(CreateDoc(NewGame("h", 1), 1), "g", first), 2)

\* both clients hold doc, the latest snapshot of the game h created and g
\* joined; nothing is in flight; budget user actions are to come
InSync(doc, first, budget) ==
    /\ games = [k \in Codes |-> IF k = 1 THEN doc ELSE NoDoc]
    /\ matches = {}
    /\ serverTime = doc.lastUpdated
    /\ local = [c \in Users |-> IF c \in Pair THEN [doc EXCEPT !.ref = 2] ELSE Null]
    /\ queue = [c \in Users |-> <<>>]
    /\ subs = [c \in Users |->
            IF c = "h"
            THEN [dep |-> 1, handle |-> 1,
                  listeners |-> {[lid |-> 1, code |-> 1,
                                  captured |-> [NewGame("h", 1) EXCEPT !.ref = 1],
                                  dirty |-> FALSE]}]
            ELSE IF c = "g"
            THEN [dep |-> 1, handle |-> 1,
                  listeners |-> {[lid |-> 1, code |-> 1,
                                  captured |-> [JoinedGame(CreateDoc(NewGame("h", 1), 1), "g", first)
                                                    EXCEPT !.ref = 1],
                                  dirty |-> FALSE]}]
            ELSE [dep |-> 0, handle |-> 0, listeners |-> {}]]
    /\ left = budget
    /\ creates = 1
    /\ fails = 0

\* h created the game, g joined it, and both have received the joined state
InitActive ==
    /\ platform \in {"native", "web"}
    /\ \E first \in Pair : InSync(ActiveDoc(platform, first), first, MaxPlayActs)

\* the document after n presses of the -5 morale button by player p, each
\* written before the next
RECURSIVE Pressed(_, _, _, _)
Pressed(plat, doc, p, n) ==
    IF n = 0 THEN doc
    ELSE LET d == Pressed(plat, doc, p, n - 1)
         IN UpdateGame(plat, d, AdjustedGame(d, p, "morale", 0 - PressAmount),
                       d.lastUpdated + 1)

\* the document after player q lost the first round: q pressed its morale
\* down to 0 and a client advanced the turn
RoundTwoDoc(plat, first, q) ==
    LET d1 == Pressed(plat, ActiveDoc(plat, first), q, StartMorale \div PressAmount)
    IN UpdateGame(plat, d1, RoundOneEnd(d1), d1.lastUpdated + 1)

\* late in round r: player p has pressed its morale down to within reach of
\* 0 (in round 2, after q lost round 1), and both clients have received that
\* state
InitRoundEnd ==
    /\ platform \in {"native", "web"}
    /\ \E first \in Pair : \E p \in Pair :
        \/ InSync(Pressed(platform, ActiveDoc(platform, first), p, NearPresses),
                  first, MaxEndActs)
        \/ \E q \in Pair :
            InSync(Pressed(platform, RoundTwoDoc(platform, first, q), p, NearPresses),
                   first, MaxEndActs)

Init == InitLobby \/ InitActive \/ InitRoundEnd

\* ------------------------------------------------------------ the screens

\* the tracker screen is rendered for client c: its buttons can be pressed
TrackerView(c) ==
    /\ local[c] # Null
    /\ HasPlayer(local[c], c)
    /\ local[c].gameStatus # "ended"

\* the results screen is rendered for client c
EndedView(c) ==
    /\ local[c] # Null
    /\ HasPlayer(local[c], c)
    /\ local[c].gameStatus = "ended"

CanAct(c) == left > 0 /\ Len(queue[c]) < MaxInFlight

\* a store operation that can succeed iff can resolves with ok
Outcome(ok, can) ==
    /\ ok => can
    /\ (~ok /\ can) => fails < MaxFails
    /\ fails' = IF ~ok /\ can THEN fails + 1 ELSE fails

\* updateGame(code, gs) resolves with ok
Update(code, gs, ok) ==
    /\ Outcome(ok, CanUpdate(platform, games[code], gs))
    /\ IF ok
       THEN /\ serverTime' = serverTime + 1
            /\ games' = [games EXCEPT ![code] =
                    UpdateGame(platform, games[code], gs, serverTime + 1)]
       ELSE UNCHANGED <<serverTime, games>>

\* saveMatchResult(rec) resolves with ok; a failure is logged and swallowed
Save(rec, ok) ==
    /\ Outcome(ok, Savable(rec))
    /\ matches' = IF ok THEN SaveMatch(matches, rec) ELSE matches

\* ------------------------------------------------------ create and join

\* createGame up to its await of the store's createGame
CreateGame(c) ==
    /\ local[c] = Null
    /\ CanAct(c)
    /\ creates < MaxCreates
    /\ \E code \in Codes :
        queue' = [queue EXCEPT ![c] = Append(@, Task("create", code, NewGame(c, code), Null, 0))]
    /\ left' = left - 1
    /\ creates' = creates + 1
    /\ UNCHANGED <<platform, games, matches, serverTime, local, subs, fails>>

\* the create write resolves; on success the host's local state is set
CreateDone(c) ==
    /\ queue[c] # <<>>
    /\ Head(queue[c]).op = "create"
    /\ LET t == Head(queue[c])
           gs == [t.gs EXCEPT !.ref = FreshRef(c)]
       IN \E ok \in BOOLEAN :
            /\ Outcome(ok, TRUE)
            /\ IF ok
               THEN /\ serverTime' = serverTime + 1
                    /\ games' = [games EXCEPT ![t.code] = CreateDoc(t.gs, serverTime + 1)]
                    /\ local' = [local EXCEPT ![c] = gs]
                    /\ subs' = SubsAfter(t.code, c, gs)
               ELSE UNCHANGED <<serverTime, games, local, subs>>
    /\ queue' = [queue EXCEPT ![c] = Tail(@)]
    /\ UNCHANGED <<platform, matches, left, creates>>

\* joinGame up to its await of getGame
JoinGame(c) ==
    /\ local[c] = Null
    /\ CanAct(c)
    /\ \E code \in Codes :
        queue' = [queue EXCEPT ![c] = Append(@, Task("joinRead", code, Null, Null, 0))]
    /\ left' = left - 1
    /\ UNCHANGED <<platform, games, matches, serverTime, local, subs, creates, fails>>

\* getGame resolves (null when the read fails or the document is absent) and
\* joinGame runs on to its write, or returns
JoinRead(c) ==
    /\ queue[c] # <<>>
    /\ Head(queue[c]).op = "joinRead"
    /\ LET t == Head(queue[c])
       IN \E ok \in BOOLEAN :
            /\ Outcome(ok, TRUE)
            /\ LET existing == IF ok /\ games[t.code] # NoDoc
                               THEN [games[t.code] EXCEPT !.ref = FreshReadRef(c)]
                               ELSE NoDoc
               IN IF existing = NoDoc THEN queue' = [queue EXCEPT ![c] = Tail(@)]
                  ELSE IF HasPlayer(existing, c)
                  THEN queue' = [queue EXCEPT ![c] = Append(Tail(@),
                        Task("reconnectWrite", t.code, ReconnectedGame(existing, c), Null, 0))]
                  ELSE IF Len(existing.players) >= 2 THEN queue' = [queue EXCEPT ![c] = Tail(@)]
                  ELSE \E first \in {existing.players[i].id : i \in 1..Len(existing.players)} \cup {c} :
                        queue' = [queue EXCEPT ![c] = Append(Tail(@),
                            Task("joinWrite", t.code, JoinedGame(existing, c, first), Null, 0))]
    /\ UNCHANGED <<platform, games, matches, serverTime, local, subs, left, creates>>

\* a join that sets the local state whatever the write returned
JoinWriteDoneAnyway(c) ==
    /\ queue[c] # <<>>
    /\ Head(queue[c]).op = "joinWrite"
    /\ LET t == Head(queue[c])
       IN \E ok \in BOOLEAN :
            /\ Update(t.code, t.gs, ok)
            /\ local' = [local EXCEPT ![c] = t.gs]
            /\ subs' = SubsAfter(IF ok THEN t.code ELSE 0, c, t.gs)
    /\ queue' = [queue EXCEPT ![c] = Tail(@)]
    /\ UNCHANGED <<platform, matches, left, creates>>

\* the join write resolves; only on success is the local state set
JoinWriteDone(c) ==
    /\ queue[c] # <<>>
    /\ Head(queue[c]).op = "joinWrite"
    /\ LET t == Head(queue[c])
       IN \E ok \in BOOLEAN :
            /\ Update(t.code, t.gs, ok)
            /\ IF ok
               THEN /\ local' = [local EXCEPT ![c] = t.gs]
                    /\ subs' = SubsAfter(t.code, c, t.gs)
               ELSE UNCHANGED <<local, subs>>
    /\ queue' = [queue EXCEPT ![c] = Tail(@)]
    /\ UNCHANGED <<platform, matches, left, creates>>

\* the reconnect write resolves; the local state is set whatever it returned
ReconnectDone(c) ==
    /\ queue[c] # <<>>
    /\ Head(queue[c]).op = "reconnectWrite"
    /\ LET t == Head(queue[c])
       IN \E ok \in BOOLEAN :
            /\ Update(t.code, t.gs, ok)
            /\ subs' = SubsAfter(IF ok THEN t.code ELSE 0, c, t.gs)
            /\ local' = [local EXCEPT ![c] = t.gs]
    /\ queue' = [queue EXCEPT ![c] = Tail(@)]
    /\ UNCHANGED <<platform, matches, left, creates>>

\* -------------------------------------------------- counters and turns

\* adjustValue: the local state is set, then the write is awaited
AdjustValue(c, pid, type, amount) ==
    /\ TrackerView(c)
    /\ CanAct(c)
    /\ HasPlayer(local[c], pid)
    /\ LET gs == AdjustedGame(local[c], pid, type, amount)
       IN /\ PlayerOf(gs, pid).morale \in (StartMorale - MaxMoraleDev)..(StartMorale + MaxMoraleDev)
          /\ PlayerOf(gs, pid).energy <= MaxEnergy
          /\ local' = [local EXCEPT ![c] = gs]
          /\ queue' = [queue EXCEPT ![c] = Append(Share(@, gs), Task("write", gs.gameCode, gs, Null, 0))]
          /\ subs' = [subs EXCEPT ![c] = ShareCaptured(@, gs)]
    /\ left' = left - 1
    /\ UNCHANGED <<platform, games, matches, serverTime, creates, fails>>

\* nextTurn ends the match: a win condition holds outside round 1
EndsMatch(gs) == HasWinCondition(gs) /\ gs.currentRound # 1

\* nextTurn without a match end: the local state is set, then the write is
\* awaited
NextTurn(c) ==
    /\ TrackerView(c)
    /\ CanAct(c)
    /\ ~EndsMatch(local[c])
    /\ LET gs == NextTurnGame(local[c])
       IN /\ local' = [local EXCEPT ![c] = gs]
          /\ queue' = [queue EXCEPT ![c] = Append(Share(@, gs), Task("write", gs.gameCode, gs, Null, 0))]
          /\ subs' = [subs EXCEPT ![c] = ShareCaptured(@, gs)]
    /\ left' = left - 1
    /\ UNCHANGED <<platform, games, matches, serverTime, creates, fails>>

\* nextTurn at the end of the second round, up to its await of
\* saveMatchResult: the round is pushed onto the rounds array the local state
\* holds, the ended state is only in the handler's copy
NextTurnMatchEnd(c) ==
    /\ TrackerView(c)
    /\ CanAct(c)
    /\ EndsMatch(local[c])
    /\ LET gs == NextTurnGame(local[c])
           pushed == [local[c] EXCEPT !.rounds = gs.rounds]
       IN /\ local' = [local EXCEPT ![c] = pushed]
          /\ queue' = [queue EXCEPT ![c] = Append(Share(@, gs),
                Task("turnSave", gs.gameCode, gs,
                     MatchResultOf(gs, gs.winner, "normal", ClockReading, c), 0))]
          /\ subs' = [subs EXCEPT ![c] = ShareCaptured(@, gs)]
    /\ left' = left - 1
    /\ UNCHANGED <<platform, games, matches, serverTime, creates, fails>>

\* saveMatchResult of nextTurn resolves; then updateGameState: the local
\* state is set and the write is awaited
TurnSaveDone(c) ==
    /\ queue[c] # <<>>
    /\ Head(queue[c]).op = "turnSave"
    /\ LET t == Head(queue[c])
       IN /\ \E ok \in BOOLEAN : Save(t.rec, ok)
          /\ local' = [local EXCEPT ![c] = t.gs]
          /\ subs' = SubsAfter(0, c, t.gs)
          /\ queue' = [queue EXCEPT ![c] = Append(Tail(@), Task("write", t.code, t.gs, Null, 0))]
    /\ UNCHANGED <<platform, games, serverTime, left, creates>>

\* a write that no handler acts on resolves
WriteDone(c) ==
    /\ queue[c] # <<>>
    /\ Head(queue[c]).op = "write"
    /\ LET t == Head(queue[c])
       IN \E ok \in BOOLEAN :
            /\ Update(t.code, t.gs, ok)
            /\ subs' = SubsAfter(IF ok THEN t.code ELSE 0, c, local[c])
    /\ queue' = [queue EXCEPT ![c] = Tail(@)]
    /\ UNCHANGED <<platform, matches, local, left, creates>>

\* -------------------------------------------------------------- surrender

\* confirmSurrender with no opponent: the local state is dropped
SurrenderAlone(c) ==
    /\ TrackerView(c)
    /\ CanAct(c)
    /\ OtherThan(PlayerIds(local[c]), c) = "unset"
    /\ local' = [local EXCEPT ![c] = Null]
    /\ subs' = SubsAfter(0, c, Null)
    /\ left' = left - 1
    /\ UNCHANGED <<platform, games, matches, serverTime, queue, creates, fails>>

\* confirmSurrender up to its await of saveMatchResult: the surrender round is
\* pushed onto the rounds array the local state holds
Surrender(c) ==
    /\ TrackerView(c)
    /\ CanAct(c)
    /\ OtherThan(PlayerIds(local[c]), c) # "unset"
    /\ LET gs == SurrenderedGame(local[c], c)
           pushed == [local[c] EXCEPT !.rounds = gs.rounds]
       IN /\ local' = [local EXCEPT ![c] = pushed]
          /\ queue' = [queue EXCEPT ![c] = Append(Share(@, gs),
                Task("surrSave", gs.gameCode, gs,
                     MatchResultOf(gs, gs.winner, "surrender", ClockReading, c), 0))]
          /\ subs' = [subs EXCEPT ![c] = ShareCaptured(@, gs)]
    /\ left' = left - 1
    /\ UNCHANGED <<platform, games, matches, serverTime, creates, fails>>

\* saveMatchResult of confirmSurrender resolves; the write is awaited
SurrenderSaveDone(c) ==
    /\ queue[c] # <<>>
    /\ Head(queue[c]).op = "surrSave"
    /\ LET t == Head(queue[c])
       IN /\ \E ok \in BOOLEAN : Save(t.rec, ok)
          /\ queue' = [queue EXCEPT ![c] = Append(Tail(@), Task("surrWrite", t.code, t.gs, Null, 0))]
    /\ UNCHANGED <<platform, games, serverTime, local, subs, left, creates>>

\* the write of confirmSurrender resolves; the local state is set whatever it
\* returned
SurrenderWriteDone(c) ==
    /\ queue[c] # <<>>
    /\ Head(queue[c]).op = "surrWrite"
    /\ LET t == Head(queue[c])
       IN \E ok \in BOOLEAN :
            /\ Update(t.code, t.gs, ok)
            /\ subs' = SubsAfter(IF ok THEN t.code ELSE 0, c, t.gs)
            /\ local' = [local EXCEPT ![c] = t.gs]
    /\ queue' = [queue EXCEPT ![c] = Tail(@)]
    /\ UNCHANGED <<platform, matches, left, creates>>

\* ------------------------------------------------------------------- exit

\* exitGame up to its first await: the player is marked disconnected in the
\* player object the local state holds; when that ends the match the
\* MatchResult is saved first
ExitGame(c) ==
    /\ TrackerView(c) \/ EndedView(c)
    /\ CanAct(c)
    /\ LET gs == ExitedGame(local[c], c)
           marked == [local[c] EXCEPT !.players = gs.players]
       IN /\ local' = [local EXCEPT ![c] = marked]
          /\ queue' = [queue EXCEPT ![c] = Append(Share(@, gs),
                IF ForceEnds(local[c], c)
                THEN Task("exitSave", gs.gameCode, gs,
                          MatchResultOf(gs, "incomplete", "incomplete", ClockReading, c),
                          subs[c].handle)
                ELSE Task("exitWrite", gs.gameCode, gs, Null, subs[c].handle))]
          /\ subs' = [subs EXCEPT ![c] = ShareCaptured(@, gs)]
    /\ left' = left - 1
    /\ UNCHANGED <<platform, games, matches, serverTime, creates, fails>>

\* saveMatchResult of exitGame resolves; the write is awaited
ExitSaveDone(c) ==
    /\ queue[c] # <<>>
    /\ Head(queue[c]).op = "exitSave"
    /\ LET t == Head(queue[c])
       IN /\ \E ok \in BOOLEAN : Save(t.rec, ok)
          /\ queue' = [queue EXCEPT ![c] = Append(Tail(@),
                    Task("exitWrite", t.code, t.gs, Null, t.handle))]
    /\ UNCHANGED <<platform, games, serverTime, local, subs, left, creates>>

\* "Clean up subscription" of exitGame, k being the gameSubscription the
\* handler was rendered with: k is called and gameSubscription set to null
\* (the cleanup of the [gameSubscription] effect then calls the handle that
\* was current), and the local state is dropped
CleanedUp(sub, k) ==
    IF k = 0 THEN RunEffect(sub, Null)
    ELSE RunEffect([sub EXCEPT !.listeners = Unsub(Unsub(@, k), sub.handle),
                               !.handle = 0], Null)

\* the write of exitGame resolves; the subscription is cleaned up and the
\* local state dropped
ExitWriteDone(c) ==
    /\ queue[c] # <<>>
    /\ Head(queue[c]).op = "exitWrite"
    /\ LET t == Head(queue[c])
       IN \E ok \in BOOLEAN :
            /\ Update(t.code, t.gs, ok)
            /\ subs' = [d \in Users |->
                    LET s == IF ok THEN MarkDirty(subs[d], t.code) ELSE subs[d]
                    IN IF d = c THEN CleanedUp(s, t.handle) ELSE s]
    /\ local' = [local EXCEPT ![c] = Null]
    /\ queue' = [queue EXCEPT ![c] = Tail(@)]
    /\ UNCHANGED <<platform, matches, left, creates>>

\* "Start New Game" on the results screen: the local state is dropped
StartNewGame(c) ==
    /\ EndedView(c)
    /\ left > 0
    /\ local' = [local EXCEPT ![c] = Null]
    /\ subs' = SubsAfter(0, c, Null)
    /\ left' = left - 1
    /\ UNCHANGED <<platform, games, matches, serverTime, queue, creates, fails>>

\* ---------------------------------------------------------- subscription

\* a snapshot reaches a registered callback: the local state is replaced by
\* the snapshot unless the snapshot is absent or equals (as JSON) the state
\* the callback closed over
Deliver(c) ==
    \E l \in subs[c].listeners :
        /\ l.dirty
        /\ LET snap == games[l.code]
               seen == [subs EXCEPT ![c].listeners = (@ \ {l}) \cup {[l EXCEPT !.dirty = FALSE]}]
           IN IF snap # NoDoc /\ snap # [l.captured EXCEPT !.ref = 0]
              THEN /\ local' = [local EXCEPT ![c] = [snap EXCEPT !.ref = FreshRef(c)]]
                   /\ subs' = [seen EXCEPT ![c] = RunEffect(@, snap)]
              ELSE /\ local' = local
                   /\ subs' = seen
        /\ UNCHANGED <<platform, games, matches, serverTime, queue, left, creates, fails>>

\* ------------------------------------------------------ the specification

ClientStep(c) ==
    \/ CreateGame(c)
    \/ CreateDone(c)
    \/ JoinGame(c)
    \/ JoinRead(c)
    \/ JoinWriteDone(c)
    \/ ReconnectDone(c)
    \/ \E amount \in MoraleDeltas : AdjustValue(c, c, "morale", amount)
    \/ NextTurn(c)
    \/ NextTurnMatchEnd(c)
    \/ TurnSaveDone(c)
    \/ WriteDone(c)
    \/ SurrenderAlone(c)
    \/ Surrender(c)
    \/ SurrenderSaveDone(c)
    \/ SurrenderWriteDone(c)
    \/ ExitGame(c)
    \/ ExitSaveDone(c)
    \/ ExitWriteDone(c)
    \/ StartNewGame(c)
    \/ Deliver(c)

\* two clients, h and g
Next == \E c \in Pair : ClientStep(c)

Spec == Init /\ [][Next]_vars

\* creating and joining only
LobbyStep(c) ==
    \/ CreateGame(c)
    \/ CreateDone(c)
    \/ JoinGame(c)
    \/ JoinRead(c)
    \/ JoinWriteDone(c)
    \/ ReconnectDone(c)
    \/ Deliver(c)

\* three identities, h, g and x, at the lobby
NextLobby == \E c \in Users : LobbyStep(c)

SpecLobby == InitLobby /\ [][NextLobby]_vars

\* ------------------------------------------------- positions of play

\* the morale values of the positions: the start, the two thresholds and one
\* press beyond each
MoraleGrid == {0 - PressAmount, LoseMorale, StartMorale, WinMorale, WinMorale + PressAmount}

\* presses of a +5 or -5 button that take a counter from from to to
Presses(from, to) == Abs(to - from) \div PressAmount

\* the document of the game h created and g joined, in round round with the
\* earlier rounds rounds, after h and g pressed their morale to a and b, h
\* raised its energy to up and lowered it to down, and g raised its energy
\* by one press and lowered it to 0; stamp is the store's stamp of the last
\* of these writes
PositionDoc(prio, round, rounds, a, b, up, down, stamp) ==
    [players |-> <<[NewPlayer("h", TRUE) EXCEPT !.morale = a, !.energy = down,
                                                 !.maxEnergyThisTurn = up],
                   [NewPlayer("g", FALSE) EXCEPT !.morale = b,
                                                  !.maxEnergyThisTurn = PressAmount]>>,
     currentTurn |-> 1, currentRound |-> round, priorityPlayerId |-> prio,
     gameStatus |-> "active", winner |-> "unset", gameCode |-> 1, rounds |-> rounds,
     incomplete |-> "unset", lastUpdated |-> stamp, ref |-> 0]

\* the writes behind a position: the morale presses from StartMorale, h's
\* energy presses up and down, and g's two energy presses
PositionWrites(a, b, up, down) ==
    Presses(StartMorale, a) + Presses(StartMorale, b) + Presses(0, up) + Presses(up, down) + 2

\* a position of play in round 1, or in round 2 after a first round that
\* ended at morale a and b; both clients have received it
InitTurn ==
    /\ platform \in {"native", "web"}
    /\ \E a \in MoraleGrid : \E b \in MoraleGrid :
        \/ \E first \in Pair : \E up \in {0, 2 * PressAmount} :
            InSync(PositionDoc(first, 1, <<>>, a, b, up, up \div 2,
                               2 + PositionWrites(a, b, up, up \div 2)),
                   first, MaxTurnActs)
        \/ /\ HasWin(a) \/ HasWin(b)
           /\ \E c \in MoraleGrid : \E d \in MoraleGrid :
                LET t1 == 2 + PositionWrites(a, b, 0, 0)
                    d1 == PositionDoc("h", 1, <<>>, a, b, 0, 0, t1)
                IN InSync(PositionDoc("g", 2, <<RoundResultOf(d1)>>, c, d,
                                      2 * PressAmount, PressAmount,
                                      t1 + 1 + PositionWrites(c, d, 2 * PressAmount, PressAmount)),
                          "h", MaxTurnActs)

\* advancing the turn and surrendering only
TurnStep(c) ==
    \/ NextTurn(c)
    \/ NextTurnMatchEnd(c)
    \/ TurnSaveDone(c)
    \/ WriteDone(c)
    \/ Surrender(c)
    \/ SurrenderSaveDone(c)
    \/ SurrenderWriteDone(c)
    \/ Deliver(c)

NextPlay == \E c \in Pair : TurnStep(c)

SpecTurn == InitTurn /\ [][NextPlay]_vars

\* ---------------------------------------------------------------- claims

\* the fields of a GameState the protocol speaks of (object identity and the
\* store's stamp left out)
GameFields(gs) ==
    [players |-> gs.players, currentTurn |-> gs.currentTurn,
     currentRound |-> gs.currentRound, priorityPlayerId |-> gs.priorityPlayerId,
     gameStatus |-> gs.gameStatus, winner |-> gs.winner, rounds |-> gs.rounds,
     incomplete |-> gs.incomplete, gameCode |-> gs.gameCode]

StatusRank(st) == IF st = "setup" THEN 0 ELSE IF st = "active" THEN 1 ELSE 2

\* the step resolves the store operation at the head of client c's queue,
\* which is one of ops
Resolves(c, ops) ==
    /\ queue[c] # <<>>
    /\ Head(queue[c]).op \in ops
    /\ queue'[c] = Tail(queue[c]) \/ Len(queue'[c]) = Len(queue[c])
    /\ queue'[c] # queue[c]

\* C1: the status of the game document and of each client's local copy of a
\* game only moves setup -> active -> ended: no step lowers it.
StatusNeverReverses ==
    [][/\ \A k \in Codes :
            (games[k] # NoDoc /\ games'[k] # NoDoc) =>
                StatusRank(games'[k].gameStatus) >= StatusRank(games[k].gameStatus)
       /\ \A c \in Users :
            (local[c] # Null /\ local'[c] # Null /\ local'[c].gameCode = local[c].gameCode) =>
                StatusRank(local'[c].gameStatus) >= StatusRank(local[c].gameStatus)]_vars

\* C2: for each game code at most one MatchRecord is ever persisted.
OneMatchRecordPerGame ==
    \A k \in Codes : Cardinality({m \in matches : m.gameCode = k}) <= 1

\* the step is the successful write of client c's exitGame while the document
\* is an active two-player game whose other player d is marked disconnected:
\* with this step both players have performed exitGame
SecondExitWritten(c, d) ==
    /\ c # d
    /\ Resolves(c, {"exitWrite"})
    /\ games[Head(queue[c]).code] # NoDoc
    /\ games'[Head(queue[c]).code] # games[Head(queue[c]).code]
    /\ PlayerIds(games[Head(queue[c]).code]) \in {<<c, d>>, <<d, c>>}
    /\ games[Head(queue[c]).code].gameStatus = "active"
    /\ PlayerOf(games[Head(queue[c]).code], d).disconnected = "yes"
    /\ local[d] = Null
    /\ fails' = 0

\* the document under code k is force-ended and its MatchRecord persisted
ForceEnded(gms, ms, k) ==
    /\ gms[k].gameStatus = "ended"
    /\ gms[k].winner = "incomplete"
    /\ gms[k].incomplete = "yes"
    /\ \E m \in ms : m.gameCode = k /\ m.winType = "incomplete"

\* C3: in an active two-player match, once both players have performed
\* exitGame (in either order, no store operation failing) the document is
\* ended with winner 'incomplete' and incomplete set, and a MatchRecord of
\* winType 'incomplete' is persisted.
BothExitedForceEnds ==
    [][\A c \in Pair : \A d \in Pair :
            SecondExitWritten(c, d) => ForceEnded(games', matches', Head(queue[c]).code)]_vars

\* the step is a failing write of adjustValue, nextTurn or confirmSurrender
\* at client c
WriteFails(c) ==
    /\ Resolves(c, {"write", "surrWrite"})
    /\ games' = games

\* C4: if the write of adjustValue, nextTurn or confirmSurrender fails, the
\* client's local state after it does not show the state the write carried,
\* unless the document contains it.
FailedWriteNotShown ==
    [][\A c \in Users :
            (WriteFails(c) /\ local'[c] # Null /\
                GameFields(local'[c]) = GameFields(Head(queue[c]).gs)) =>
            (/\ games[Head(queue[c]).code] # NoDoc
             /\ GameFields(games[Head(queue[c]).code]) = GameFields(Head(queue[c]).gs))]_vars

\* C5: a player id that is a key of players in the game document is a key of
\* players in every later state of the document.
PlayersNeverRemoved ==
    [][\A k \in Codes : \A u \in Users :
            (games[k] # NoDoc /\ HasPlayer(games[k], u)) =>
            (games'[k] # NoDoc /\ HasPlayer(games'[k], u))]_vars

\* C6: players never has more than two entries, in the document and in every
\* client's local copy.
AtMostTwoPlayers ==
    /\ \A k \in Codes : games[k] # NoDoc => Len(games[k].players) <= 2
    /\ \A c \in Users : local[c] # Null => Len(local[c].players) <= 2

RoundsOk(rs) ==
    /\ Len(rs) <= 2
    /\ \A i \in 1..Len(rs) : \A j \in 1..Len(rs) :
            i # j => rs[i].roundNumber # rs[j].roundNumber

\* C7: rounds never holds more than two RoundResults nor two RoundResults of
\* the same roundNumber, in the document and in every client's local copy.
RoundsBounded ==
    /\ \A k \in Codes : games[k] # NoDoc => RoundsOk(games[k].rounds)
    /\ \A c \in Users : local[c] # Null => RoundsOk(local[c].rounds)

\* C8: once the document's status is ended no step changes any of its fields.
EndedIsTerminal ==
    [][\A k \in Codes :
            (games[k] # NoDoc /\ games[k].gameStatus = "ended") =>
            (games'[k] # NoDoc /\ GameFields(games'[k]) = GameFields(games[k]))]_vars

\* no store operation is in flight and no snapshot is undelivered
Quiescent ==
    /\ \A c \in Users : queue[c] = <<>>
    /\ \A c \in Users : \A l \in subs[c].listeners : ~l.dirty

\* C9: when every pending write and snapshot delivery has completed, every
\* client that still observes a game holds a local state equal to the
\* document.
QuiescentConverged ==
    Quiescent =>
        \A c \in Users :
            local[c] # Null =>
                /\ games[local[c].gameCode] # NoDoc
                /\ GameFields(local[c]) = GameFields(games[local[c].gameCode])

\* C10: the local state of a client that left a game stays absent until the
\* client creates or joins a game: no other step (a snapshot) sets it.
AbsentUntilCreateOrJoin ==
    [][\A c \in Users :
            (local[c] = Null /\ local'[c] # Null) =>
                Resolves(c, {"create", "joinWrite", "reconnectWrite"})]_vars

\* ------------------------------------------------- leaving and returning

MaxExitActs == 3

\* the document after h left the active game (exitGame's write of h's
\* disconnected flag is the third write to the game)
OneOutDoc(first) ==
    [players |-> <<[NewPlayer("h", TRUE) EXCEPT !.disconnected = "yes", !.lastDisconnect = "set"],
                   NewPlayer("g", FALSE)>>,
     currentTurn |-> 1, currentRound |-> 1, priorityPlayerId |-> first,
     gameStatus |-> "active", winner |-> "unset", gameCode |-> 1, rounds |-> <<>>,
     incomplete |-> "unset", lastUpdated |-> 3, ref |-> 0]

\* h has left the active game and g has received the snapshot that shows it
InitOneOut ==
    /\ platform \in {"native", "web"}
    /\ \E first \in Pair :
        /\ games = [k \in Codes |-> IF k = 1 THEN OneOutDoc(first) ELSE NoDoc]
        /\ local = [c \in Users |-> IF c = "g" THEN [OneOutDoc(first) EXCEPT !.ref = 2] ELSE Null]
        /\ subs = [c \in Users |->
                IF c = "g"
                THEN [dep |-> 1, handle |-> 1,
                      listeners |-> {[lid |-> 1, code |-> 1,
                                      captured |-> [JoinedGame(CreateDoc(NewGame("h", 1), 1), "g", first)
                                                        EXCEPT !.ref = 1],
                                      dirty |-> FALSE]}]
                ELSE [dep |-> 0, handle |-> 0, listeners |-> {}]]
    /\ matches = {}
    /\ serverTime = 3
    /\ queue = [c \in Users |-> <<>>]
    /\ left = MaxExitActs
    /\ creates = 1
    /\ fails = 0

\* both players in the active game, or h out of it
InitExit ==
    \/ /\ platform \in {"native", "web"}
       /\ \E first \in Pair : InSync(ActiveDoc(platform, first), first, MaxExitActs)
    \/ InitOneOut

ExitStep(c) ==
    \/ JoinGame(c)
    \/ JoinRead(c)
    \/ ReconnectDone(c)
    \/ ExitGame(c)
    \/ ExitSaveDone(c)
    \/ ExitWriteDone(c)
    \/ Deliver(c)

NextExit == \E c \in Pair : ExitStep(c)

SpecExit == InitExit /\ [][NextExit]_vars

\* ------------------------------------------------------- counter presses

MaxPressActs == 3

\* both players in the active game, each pressing +5 on the own morale
InitPress ==
    /\ platform \in {"native", "web"}
    /\ \E first \in Pair : InSync(ActiveDoc(platform, first), first, MaxPressActs)

PressStep(c) ==
    \/ AdjustValue(c, c, "morale", PressAmount)
    \/ WriteDone(c)
    \/ Deliver(c)

NextPress == \E c \in Pair : PressStep(c)

SpecPress == InitPress /\ [][NextPress]_vars

\* both players in the active game, each pressing +5 and -5 on the own
\* energy
EnergyStep(c) ==
    \/ \E amount \in EnergyDeltas : AdjustValue(c, c, "energy", amount)
    \/ WriteDone(c)
    \/ Deliver(c)

NextEnergy == \E c \in Pair : EnergyStep(c)

SpecEnergy == InitPress /\ [][NextEnergy]_vars

\* ------------------------------------------------------------------ claims
\* (continued)

\* the GameState the handler that this step starts at client c works on
\* (its updatedGame)
Issued(c) == queue'[c][Len(queue'[c])].gs

LastRound(gs) == gs.rounds[Len(gs.rounds)]

\* the step is nextTurn pressed at client c
TurnAdvanced(c) == NextTurn(c) \/ NextTurnMatchEnd(c)

\* the keys of players whose morale is at most 0; at least 100
Lows(gs) == {i \in 1..Len(gs.players) : gs.players[i].morale <= 0}
Highs(gs) == {i \in 1..Len(gs.players) : gs.players[i].morale >= 100}

\* C11: nextTurn in a two-player match: if a player has morale <= 0 the
\* appended RoundResult has endReason 'morale_0_or_below' and the other
\* player as winner, also when a player has morale >= 100; if no player has
\* morale <= 0 and one has morale >= 100, that player is the winner with
\* endReason 'morale_100_or_above'.
RoundWinnerRule ==
    [][\A c \in Pair :
        (TurnAdvanced(c) /\ Len(local[c].players) = 2) =>
            LET gs == local[c]
                r == LastRound(Issued(c))
            IN /\ Lows(gs) # {} =>
                    /\ Len(Issued(c).rounds) = Len(gs.rounds) + 1
                    /\ r.endReason = "morale_0_or_below"
                    /\ \E i \in Lows(gs) : r.winner = gs.players[3 - i].id
               /\ (Lows(gs) = {} /\ Highs(gs) # {}) =>
                    /\ Len(Issued(c).rounds) = Len(gs.rounds) + 1
                    /\ r.endReason = "morale_100_or_above"
                    /\ \E i \in Highs(gs) : r.winner = gs.players[i].id]_vars

\* a handler holds a RoundResult that was decided by a morale <= 0 while the
\* winner stood at 100 or more
ZeroBeatsHundredSeen ==
    \E c \in Pair : \E k \in 1..Len(queue[c]) :
        /\ queue[c][k].op \in {"write", "turnSave"}
        /\ queue[c][k].gs.rounds # <<>>
        /\ LET r == LastRound(queue[c][k].gs)
           IN /\ r.endReason = "morale_0_or_below"
              /\ \E i \in 1..2 : /\ r.playerMorale[i].morale >= 100
                                 /\ r.playerMorale[i].id = r.winner
                                 /\ r.playerMorale[3 - i].morale <= 0

\* |moraleA - moraleB| of a RoundResult's snapshot of two players
Gap(r) ==
    LET a == r.playerMorale[1].morale
        b == r.playerMorale[2].morale
    IN IF a >= b THEN a - b ELSE b - a

\* the two RoundResults of gs were won by different players of gs
OneRoundEach(gs) ==
    /\ Len(gs.rounds) = 2
    /\ Len(gs.players) = 2
    /\ gs.rounds[1].winner # gs.rounds[2].winner
    /\ {gs.rounds[1].winner, gs.rounds[2].winner} = {gs.players[1].id, gs.players[2].id}

\* one player of gs won both RoundResults of gs
BothRoundsTo(gs, u) ==
    /\ Len(gs.rounds) = 2
    /\ \E i \in 1..Len(gs.players) : gs.players[i].id = u
    /\ gs.rounds[1].winner = u
    /\ gs.rounds[2].winner = u

\* C12: when nextTurn finalizes a match in which each player won one of the
\* two rounds, the match winner is the winner of the round with the strictly
\* larger gap |moraleA - moraleB|, and the winner of round 1 when the gaps
\* are equal.
TiedRoundsByGap ==
    [][\A c \in Pair :
        (NextTurnMatchEnd(c) /\ OneRoundEach(Issued(c))) =>
            LET g == Issued(c)
            IN /\ Gap(g.rounds[1]) > Gap(g.rounds[2]) => g.winner = g.rounds[1].winner
               /\ Gap(g.rounds[2]) > Gap(g.rounds[1]) => g.winner = g.rounds[2].winner
               /\ Gap(g.rounds[1]) = Gap(g.rounds[2]) => g.winner = g.rounds[1].winner]_vars

\* a finalized match of one round each whose gaps are equal
EvenTieSeen ==
    \E c \in Pair : \E k \in 1..Len(queue[c]) :
        /\ queue[c][k].op = "turnSave"
        /\ queue[c][k].gs.gameStatus = "ended"
        /\ OneRoundEach(queue[c][k].gs)
        /\ Gap(queue[c][k].gs.rounds[1]) = Gap(queue[c][k].gs.rounds[2])
        /\ Gap(queue[c][k].gs.rounds[1]) > 0

\* C13: when nextTurn finalizes a match in which one player won both rounds,
\* that player is the match winner.
BothRoundsWinnerWins ==
    [][\A c \in Pair : \A u \in Pair :
        (NextTurnMatchEnd(c) /\ BothRoundsTo(Issued(c), u)) => Issued(c).winner = u]_vars

\* a finalized match both of whose rounds went to the same player
BothRoundsSeen ==
    \E c \in Pair : \E k \in 1..Len(queue[c]) : \E u \in Pair :
        /\ queue[c][k].op = "turnSave"
        /\ queue[c][k].gs.gameStatus = "ended"
        /\ BothRoundsTo(queue[c][k].gs, u)
        /\ queue[c][k].gs.winner = u

\* the task the handler that this step starts at client c awaits
IssuedTask(c) == queue'[c][Len(queue'[c])]

\* the id of the player of a two-player gs who is not u
Opponent(gs, u) == IF gs.players[1].id = u THEN gs.players[2].id ELSE gs.players[1].id

\* C14: a surrender by a player of an active two-player match, in either
\* round, appends exactly one RoundResult (roundNumber = currentRound,
\* endTurn = currentTurn, endReason 'surrender', winner = the other player,
\* a snapshot of both players' morale as it stands), sets status 'ended' and
\* winner = the other player, resets nothing, and saves a MatchRecord of
\* winType 'surrender'; the save and the write, when the store accepts them,
\* put that record and that state in the store.
SurrenderContract ==
    [][\A c \in Pair :
        /\ (Surrender(c) /\ local[c].gameStatus = "active" /\ Len(local[c].players) = 2) =>
            LET gs == local[c]
                g == Issued(c)
                r == LastRound(g)
                rec == IssuedTask(c).rec
            IN /\ Len(g.rounds) = Len(gs.rounds) + 1
               /\ SubSeq(g.rounds, 1, Len(gs.rounds)) = gs.rounds
               /\ r.roundNumber = gs.currentRound
               /\ r.endTurn = gs.currentTurn
               /\ r.endReason = "surrender"
               /\ r.winner = Opponent(gs, c)
               /\ r.playerMorale = [i \in 1..2 |-> [id |-> gs.players[i].id,
                                                    morale |-> gs.players[i].morale]]
               /\ g.gameStatus = "ended"
               /\ g.winner = Opponent(gs, c)
               /\ g.players = gs.players
               /\ g.currentRound = gs.currentRound
               /\ g.currentTurn = gs.currentTurn
               /\ g.priorityPlayerId = gs.priorityPlayerId
               /\ rec.winType = "surrender"
               /\ rec.winner = Opponent(gs, c)
               /\ rec.rounds = g.rounds
               /\ rec.gameCode = gs.gameCode
        /\ (SurrenderSaveDone(c) /\ fails' = fails) => Head(queue[c]).rec \in matches'
        /\ (SurrenderWriteDone(c) /\ fails' = fails) =>
            LET g == Head(queue[c]).gs
                doc == games'[g.gameCode]
            IN /\ doc.gameStatus = "ended"
               /\ doc.winner = g.winner
               /\ doc.rounds = g.rounds]_vars

\* a surrender in round 2 is in the store, record and document, and gave the
\* match to a player whose morale stood at 0 or below
SurrenderStored ==
    /\ games[1] # NoDoc
    /\ games[1].gameStatus = "ended"
    /\ games[1].currentRound = 2
    /\ Len(games[1].rounds) = 2
    /\ LastRound(games[1]).endReason = "surrender"
    /\ games[1].winner = LastRound(games[1]).winner
    /\ \E i \in 1..2 : /\ games[1].players[i].id = games[1].winner
                       /\ games[1].players[i].morale <= 0
                       /\ LastRound(games[1]).playerMorale[i].morale <= 0
    /\ \E m \in matches : /\ m.winType = "surrender"
                          /\ m.rounds = games[1].rounds
                          /\ m.winner = games[1].winner

\* the document of a match that a surrender ended in round 1
SurrenderedInRoundOne(doc) ==
    /\ doc # NoDoc
    /\ doc.gameStatus = "ended"
    /\ doc.currentRound = 1
    /\ Len(doc.rounds) = 1
    /\ doc.rounds[1].endReason = "surrender"

\* C15: once a surrender in round 1 is in the document, every later state of
\* the document has status 'ended', currentRound 1 and exactly one
\* RoundResult, whatever either client does afterwards.
SurrenderRoundOneFinal ==
    [][\A code \in Codes :
        SurrenderedInRoundOne(games[code]) =>
            /\ games'[code] # NoDoc
            /\ games'[code].gameStatus = "ended"
            /\ games'[code].currentRound = 1
            /\ Len(games'[code].rounds) = 1]_vars

\* some player of gs has a morale of at most 0 or at least 100
WinConditionMet(gs) == Lows(gs) # {} \/ Highs(gs) # {}

\* the morale of both players of gs as a RoundResult records it
Snapshot(gs) == [i \in 1..2 |-> [id |-> gs.players[i].id, morale |-> gs.players[i].morale]]

\* C16: nextTurn in round 1 of an active two-player match with a win
\* condition met appends one RoundResult with roundNumber 1, endTurn = the
\* current turn and the morale of both players before the reset; sets every
\* player's morale to 50, energy to 0 and maxEnergyThisTurn to 0; sets
\* currentRound 2 and currentTurn 1; gives priority to the player who did
\* not hold it; leaves status 'active' and no winner.
RoundOneEndContract ==
    [][\A c \in Pair :
        (/\ TurnAdvanced(c)
         /\ Len(local[c].players) = 2
         /\ local[c].gameStatus = "active"
         /\ local[c].currentRound = 1
         /\ WinConditionMet(local[c])) =>
            LET gs == local[c]
                g == Issued(c)
                r == LastRound(g)
            IN /\ Len(g.rounds) = Len(gs.rounds) + 1
               /\ SubSeq(g.rounds, 1, Len(gs.rounds)) = gs.rounds
               /\ r.roundNumber = 1
               /\ r.endTurn = gs.currentTurn
               /\ r.playerMorale = Snapshot(gs)
               /\ \A i \in 1..2 : /\ g.players[i].id = gs.players[i].id
                                  /\ g.players[i].morale = 50
                                  /\ g.players[i].energy = 0
                                  /\ g.players[i].maxEnergyThisTurn = 0
               /\ g.currentRound = 2
               /\ g.currentTurn = 1
               /\ g.priorityPlayerId = Opponent(gs, gs.priorityPlayerId)
               /\ g.gameStatus = "active"
               /\ g.winner = "unset"
               /\ IssuedTask(c).op = "write"]_vars

\* a handler holds the state that opens round 2 after a round 1 that ended
\* with energy on the table
RoundTwoOpened ==
    \E c \in Pair : \E k \in 1..Len(queue[c]) :
        LET g == queue[c][k].gs
        IN /\ queue[c][k].op = "write"
           /\ g.currentRound = 2
           /\ g.currentTurn = 1
           /\ g.gameStatus = "active"
           /\ Len(g.rounds) = 1
           /\ g.rounds[1].roundNumber = 1
           /\ \E i \in 1..2 : g.rounds[1].playerMorale[i].morale # 50
           /\ \A i \in 1..2 : g.players[i].morale = 50 /\ g.players[i].maxEnergyThisTurn = 0
           /\ games[1].players[1].maxEnergyThisTurn > 0
           /\ games[1].currentRound = 1

\* C17: nextTurn in round 2 of an active two-player match with a win
\* condition met appends the second RoundResult, sets status 'ended' and the
\* winner (the player who won both rounds, else the winner of the round with
\* the larger gap, round 1 on equal gaps), leaves the players' counters,
\* currentRound and currentTurn as they are, and saves a MatchRecord of
\* winType 'normal' whose rounds and winner are those of the ended state;
\* the record is in the store when the store accepts the save.
RoundTwoEndContract ==
    [][\A c \in Pair :
        /\ (/\ TurnAdvanced(c)
            /\ Len(local[c].players) = 2
            /\ local[c].gameStatus = "active"
            /\ local[c].currentRound = 2
            /\ Len(local[c].rounds) = 1
            /\ WinConditionMet(local[c])) =>
            LET gs == local[c]
                g == Issued(c)
                rec == IssuedTask(c).rec
            IN /\ Len(g.rounds) = 2
               /\ g.rounds[1] = gs.rounds[1]
               /\ g.rounds[2].roundNumber = 2
               /\ g.rounds[2].endTurn = gs.currentTurn
               /\ g.rounds[2].playerMorale = Snapshot(gs)
               /\ g.gameStatus = "ended"
               /\ g.winner = IF g.rounds[1].winner = g.rounds[2].winner THEN g.rounds[1].winner
                             ELSE IF Gap(g.rounds[2]) > Gap(g.rounds[1]) THEN g.rounds[2].winner
                             ELSE g.rounds[1].winner
               /\ g.players = gs.players
               /\ g.currentRound = 2
               /\ g.currentTurn = gs.currentTurn
               /\ IssuedTask(c).op = "turnSave"
               /\ rec.winType = "normal"
               /\ rec.rounds = g.rounds
               /\ rec.winner = g.winner
        /\ (TurnSaveDone(c) /\ fails' = fails) => Head(queue[c]).rec \in matches']_vars

\* the record of a match that ended in round 2 is in the store, with the
\* rounds and the winner of the ended state its handler goes on to write
NormalMatchStored ==
    \E c \in Pair : \E m \in matches :
        /\ queue[c] # <<>>
        /\ Head(queue[c]).op = "write"
        /\ Head(queue[c]).gs.gameStatus = "ended"
        /\ Head(queue[c]).gs.currentRound = 2
        /\ Len(Head(queue[c]).gs.rounds) = 2
        /\ \E i \in 1..2 : Head(queue[c]).gs.players[i].morale # 50
        /\ m.winType = "normal"
        /\ m.rounds = Head(queue[c]).gs.rounds
        /\ m.winner = Head(queue[c]).gs.winner

\* C18: nextTurn when no player has a morale of at most 0 or at least 100
\* sets every player's energy to that player's maxEnergyThisTurn, leaves
\* maxEnergyThisTurn and morale as they are, adds exactly 1 to currentTurn,
\* moves priority to the other player and leaves currentRound, rounds,
\* status and winner as they are.
RegularTurnContract ==
    [][\A c \in Pair :
        (/\ TurnAdvanced(c)
         /\ Len(local[c].players) = 2
         /\ ~WinConditionMet(local[c])) =>
            LET gs == local[c]
                g == Issued(c)
            IN /\ \A i \in 1..2 :
                    g.players[i] = [gs.players[i] EXCEPT !.energy = gs.players[i].maxEnergyThisTurn]
               /\ g.currentTurn = gs.currentTurn + 1
               /\ g.priorityPlayerId = Opponent(gs, gs.priorityPlayerId)
               /\ g.currentRound = gs.currentRound
               /\ g.rounds = gs.rounds
               /\ g.gameStatus = gs.gameStatus
               /\ g.winner = gs.winner
               /\ IssuedTask(c).op = "write"]_vars

\* a handler holds the state of a second turn in which a player's energy was
\* filled up to a maxEnergyThisTurn above what that player held
EnergyRefilled ==
    \E c \in Pair : \E k \in 1..Len(queue[c]) :
        LET g == queue[c][k].gs
        IN /\ queue[c][k].op = "write"
           /\ g.currentTurn = 2
           /\ g.gameStatus = "active"
           /\ games[1].currentTurn = 1
           /\ \E i \in 1..2 : /\ g.players[i].energy = g.players[i].maxEnergyThisTurn
                              /\ games[1].players[i].energy < g.players[i].energy
                              /\ g.players[i].morale = games[1].players[i].morale

\* doc is a game in setup whose only player is not u
OpenFor(doc, u) ==
    /\ doc # NoDoc
    /\ doc.gameStatus = "setup"
    /\ Len(doc.players) = 1
    /\ doc.players[1].id # u

\* gs is doc with the guest u added and the match started
GuestAdded(doc, gs, u) ==
    /\ Len(gs.players) = 2
    /\ gs.players[1] = doc.players[1]
    /\ gs.players[2].id = u
    /\ gs.players[2].morale = 50
    /\ gs.players[2].energy = 0
    /\ gs.players[2].maxEnergyThisTurn = 0
    /\ gs.players[2].isHost = FALSE
    /\ gs.gameStatus = "active"
    /\ gs.priorityPlayerId \in {doc.players[1].id, u}
    /\ gs.gameCode = doc.gameCode
    /\ gs.currentTurn = doc.currentTurn
    /\ gs.currentRound = doc.currentRound
    /\ gs.rounds = doc.rounds
    /\ gs.winner = doc.winner

\* C19: joinGame by an identity that is not a player of a one-player game in
\* setup builds the game with exactly that guest added (morale 50, energy 0,
\* maxEnergyThisTurn 0, isHost false), the host's entry as it was, status
\* 'active' and priorityPlayerId one of the two ids, and writes it; when the
\* document is still as the join read it, it is that game once the store
\* accepts the write; the joiner's local state is set to that game then and
\* not before, and not at all when the write fails.
JoinContract ==
    [][\A c \in Users :
        /\ (/\ JoinRead(c)
            /\ fails' = fails
            /\ OpenFor(games[Head(queue[c]).code], c)) =>
                /\ queue'[c] # <<>>
                /\ IssuedTask(c).op = "joinWrite"
                /\ GuestAdded(games[Head(queue[c]).code], Issued(c), c)
                /\ local'[c] = local[c]
        /\ (/\ JoinWriteDone(c)
            /\ OpenFor(games[Head(queue[c]).code], c)
            /\ games[Head(queue[c]).code].lastUpdated = Head(queue[c]).gs.lastUpdated) =>
                LET code == Head(queue[c]).code
                IN IF games'[code] # games[code]
                   THEN /\ GuestAdded(games[code], games'[code], c)
                        /\ local'[c] # Null
                        /\ GuestAdded(games[code], local'[c], c)
                        /\ local'[c].priorityPlayerId = games'[code].priorityPlayerId
                   ELSE local'[c] = local[c]
        /\ (JoinWriteDone(c) /\ local'[c] # local[c]) =>
                /\ serverTime' = serverTime + 1
                /\ games'[Head(queue[c]).code].lastUpdated = serverTime']_vars

\* a guest has joined: the document and the guest's local state hold the
\* started game, and the guest drew the priority
GuestJoined ==
    \E c \in Users :
        /\ games[1] # NoDoc
        /\ games[1].gameStatus = "active"
        /\ Len(games[1].players) = 2
        /\ games[1].players[1].isHost = TRUE
        /\ games[1].players[2].id = c
        /\ games[1].priorityPlayerId = c
        /\ local[c] # Null
        /\ local[c].gameStatus = "active"
        /\ local[c].players = games[1].players

\* what a reconnect of u is to leave alone in doc: the entries of the other
\* players, status, currentTurn, currentRound, priorityPlayerId, rounds and
\* winner
BesidesReconnect(doc, u) ==
    [others |-> {doc.players[i] : i \in {j \in 1..Len(doc.players) : doc.players[j].id # u}},
     gameStatus |-> doc.gameStatus,
     currentTurn |-> doc.currentTurn,
     currentRound |-> doc.currentRound,
     priorityPlayerId |-> doc.priorityPlayerId,
     rounds |-> doc.rounds,
     winner |-> doc.winner]

\* C20: the write of a reconnect (joinGame by an identity that is already a
\* player) to a two-player game sets that player's disconnected flag to false, stamps
\* lastReconnect and changes nothing else in the document: the other
\* player's entry, status, currentTurn, currentRound, priorityPlayerId,
\* rounds and winner are after the write what they were before it, also when
\* the other client wrote the document after the reconnect read it.
ReconnectOnlyStamps ==
    [][\A c \in Users :
        (/\ ReconnectDone(c)
         /\ games[Head(queue[c]).code] # NoDoc
         /\ Len(games[Head(queue[c]).code].players) = 2) =>
            LET code == Head(queue[c]).code
            IN /\ games'[code] # NoDoc
               /\ BesidesReconnect(games'[code], c) = BesidesReconnect(games[code], c)
               /\ games'[code] # games[code] =>
                    /\ PlayerOf(games'[code], c).disconnected = "no"
                    /\ PlayerOf(games'[code], c).lastReconnect = "set"]_vars

\* C21: a createGame or joinGame that does not succeed changes nothing: when
\* the create write fails, when the code names no document, when an identity
\* that is no player joins a game of two players, or when the join write
\* fails, the games collection is unchanged, no further write is issued and
\* the caller's local GameState is what it was (absent).
FailedCreateOrJoinChangesNothing ==
    [][\A c \in Users :
        /\ (CreateDone(c) /\ serverTime' = serverTime) =>
                /\ games' = games
                /\ local'[c] = local[c]
                /\ queue'[c] = Tail(queue[c])
        /\ (/\ JoinRead(c)
            /\ \/ games[Head(queue[c]).code] = NoDoc
               \/ /\ Len(games[Head(queue[c]).code].players) >= 2
                  /\ \A i \in 1..Len(games[Head(queue[c]).code].players) :
                        games[Head(queue[c]).code].players[i].id # c) =>
                /\ games' = games
                /\ local'[c] = local[c]
                /\ queue'[c] = Tail(queue[c])
        /\ (JoinWriteDone(c) /\ serverTime' = serverTime) =>
                /\ games' = games
                /\ local'[c] = local[c]
                /\ queue'[c] = Tail(queue[c])]_vars

\* a join failed at the store (its read or its write): one create, one join
\* and one store failure have happened, the game is still the host's game in
\* setup, no client but the host holds a GameState and nothing is in flight
JoinFailedAtStore ==
    /\ fails = 1
    /\ serverTime = 1
    /\ left = MaxActs - 2
    /\ games[1] # NoDoc
    /\ games[1].gameStatus = "setup"
    /\ Len(games[1].players) = 1
    /\ \A c \in Users : queue[c] = <<>>
    /\ \E c \in Users : /\ local[c] # Null
                        /\ \A d \in Users \ {c} : local[d] = Null

\* C22: nextTurn pressed while the status of the local GameState is not
\* 'active' (setup with only the host present, or ended) is rejected: it
\* changes no field of the local GameState and issues no write and no
\* MatchRecord.
NextTurnNeedsActive ==
    [][\A c \in Pair :
        (TurnAdvanced(c) /\ local[c].gameStatus # "active") =>
            /\ local'[c] = local[c]
            /\ queue'[c] = queue[c]]_vars

\* the match under code has been ended as incomplete: its record is in the
\* store and no handler is still awaiting the store
ForceEndSettled(code) ==
    /\ \E m \in matches : m.gameCode = code /\ m.winType = "incomplete"
    /\ \A c \in Users : queue[c] = <<>>
    /\ fails = 0

\* C23: force-ending by mutual disconnect is idempotent: once the match has
\* been ended as incomplete, an exitGame by either player, also after that
\* player reconnected, builds no further MatchRecord.
ForceEndIdempotent ==
    [][\A c \in Pair :
        (ExitGame(c) /\ ForceEndSettled(local[c].gameCode)) =>
            IssuedTask(c).op # "exitSave"]_vars

\* C24: exitGame by one player of an active two-player match while the
\* other player is not disconnected changes only the acting player's
\* disconnected flag and lastDisconnect stamp: the state it writes has status
\* 'active' and no MatchRecord is built.
ExitKeepsMatchActive ==
    [][\A c \in Pair :
        (/\ ExitGame(c)
         /\ games[local[c].gameCode] # NoDoc
         /\ games[local[c].gameCode].gameStatus = "active"
         /\ Len(games[local[c].gameCode].players) = 2
         /\ \A i \in 1..2 : games[local[c].gameCode].players[i].disconnected # "yes") =>
            /\ IssuedTask(c).op = "exitWrite"
            /\ Issued(c).gameStatus = "active"]_vars

\* the morale of both players of gs together
TotalMorale(gs) == gs.players[1].morale + gs.players[2].morale

\* C25: after any sequence of morale presses with no nextTurn between them,
\* each player's morale is 50 plus the sum of that player's deltas, also
\* when a press is made before the previous write has resolved. Every press
\* being +5 on the presser's own morale, the morale of both players together
\* is 100 plus 5 for every press made, in the document and in every local
\* copy, once every write has resolved without a failure and every snapshot
\* is delivered.
MoraleIsSumOfDeltas ==
    (Quiescent /\ fails = 0) =>
        /\ TotalMorale(games[1]) = 2 * 50 + 5 * (MaxPressActs - left)
        /\ \A c \in Pair : TotalMorale(local[c]) = 2 * 50 + 5 * (MaxPressActs - left)

\* C26: over any sequence of energy presses no player's energy is negative,
\* and with no nextTurn between them no player's maxEnergyThisTurn
\* decreases: in the document, every player's maxEnergyThisTurn after a
\* step is at least what it was before the step.
MaxEnergyNeverDecreases ==
    [][\A code \in Codes :
        (games[code] # NoDoc /\ games'[code] # NoDoc
            /\ games'[code].currentTurn = games[code].currentTurn
            /\ games'[code].currentRound = games[code].currentRound
            /\ Len(games'[code].players) = Len(games[code].players)) =>
            \A i \in 1..Len(games[code].players) :
                /\ games'[code].players[i].energy >= 0
                /\ games'[code].players[i].maxEnergyThisTurn >=
                        games[code].players[i].maxEnergyThisTurn]_vars

\* C27: in every reachable state the priorityPlayerId of the document and of
\* each client's local copy is the id of one of that game's players.
PriorityIsAPlayer ==
    /\ \A code \in Codes :
        games[code] # NoDoc => HasPlayer(games[code], games[code].priorityPlayerId)
    /\ \A c \in Pair :
        local[c] # Null => HasPlayer(local[c], local[c].priorityPlayerId)

\* a turn was advanced in a one-player game still in setup, and the write
\* has landed
LoneTurnStored ==
    \E code \in Codes :
        /\ games[code] # NoDoc
        /\ games[code].gameStatus = "setup"
        /\ Len(games[code].players) = 1
        /\ games[code].currentTurn >= 2
        /\ games[code].priorityPlayerId = games[code].players[1].id

\* C28: in the document and in every local copy a winner is set only if the
\* status is 'ended'.
WinnerOnlyWhenEnded ==
    /\ \A code \in Codes :
        (games[code] # NoDoc /\ games[code].winner # "unset") =>
            games[code].gameStatus = "ended"
    /\ \A c \in Pair :
        (local[c] # Null /\ local[c].winner # "unset") =>
            local[c].gameStatus = "ended"

\* C29: the rounds of the document are append-only: over every step that
\* keeps the game's players, taken while no client has more than one store
\* task outstanding, the rounds before the step are a prefix of the rounds
\* after it.
RoundsAppendOnly ==
    [][\A code \in Codes :
        (games[code] # NoDoc /\ games'[code] # NoDoc
            /\ PlayerIds(games'[code]) = PlayerIds(games[code])
            /\ \A c \in Pair : Len(queue[c]) <= 1) =>
            /\ Len(games[code].rounds) <= Len(games'[code].rounds)
            /\ SubSeq(games'[code].rounds, 1, Len(games[code].rounds)) =
                    games[code].rounds]_vars

\* C30: whenever the document of a game has status 'ended', a MatchRecord
\* for that game code has been persisted.
EndedGameHasRecord ==
    \A code \in Codes :
        (games[code] # NoDoc /\ games[code].gameStatus = "ended") =>
            \E m \in matches : m.gameCode = code

\* ------------------------------------------------------------ a host alone

MaxLoneActs == 2

\* the document of the game h created and nobody joined, in round round
\* with the earlier rounds rounds, after h pressed its morale to a; stamp is
\* the store's stamp of the last of these writes
LoneDoc(round, rounds, a, stamp) ==
    [players |-> <<[NewPlayer("h", TRUE) EXCEPT !.morale = a]>>, currentTurn |-> 1,
     currentRound |-> round, priorityPlayerId |-> "h", gameStatus |-> "setup",
     winner |-> "unset", gameCode |-> 1, rounds |-> rounds, incomplete |-> "unset",
     lastUpdated |-> stamp, ref |-> 0]

\* h alone holds doc and has received every write
LoneInSync(doc) ==
    /\ games = [k \in Codes |-> IF k = 1 THEN doc ELSE NoDoc]
    /\ local = [c \in Users |-> IF c = "h" THEN [doc EXCEPT !.ref = 2] ELSE Null]
    /\ serverTime = doc.lastUpdated

\* h waits in its own game with its morale somewhere on the grid, in round 1
\* or in round 2 after a first round that ended at morale a
InitLone ==
    /\ platform \in {"native", "web"}
    /\ \E a \in MoraleGrid :
        \/ LoneInSync(LoneDoc(1, <<>>, a, 1 + Presses(StartMorale, a)))
        \/ /\ HasWin(a)
           /\ \E b \in MoraleGrid :
                LET t1 == 1 + Presses(StartMorale, a)
                    d1 == LoneDoc(1, <<>>, a, t1)
                IN LoneInSync(LoneDoc(2, <<RoundResultOf(d1)>>, b,
                                      t1 + 1 + Presses(StartMorale, b)))
    /\ matches = {}
    /\ queue = [c \in Users |-> <<>>]
    /\ subs = [c \in Users |->
            IF c = "h"
            THEN [dep |-> 1, handle |-> 1,
                  listeners |-> {[lid |-> 1, code |-> 1,
                                  captured |-> [NewGame("h", 1) EXCEPT !.ref = 1],
                                  dirty |-> FALSE]}]
            ELSE [dep |-> 0, handle |-> 0, listeners |-> {}]]
    /\ left = MaxLoneActs
    /\ creates = 1
    /\ fails = 0

\* the tracker's buttons while no opponent has joined
LoneStep(c) ==
    \/ \E amount \in MoraleDeltas : AdjustValue(c, c, "morale", amount)
    \/ NextTurn(c)
    \/ NextTurnMatchEnd(c)
    \/ TurnSaveDone(c)
    \/ WriteDone(c)
    \/ Deliver(c)

NextLone == LoneStep("h")

SpecLone == InitLone /\ [][NextLone]_vars

\* C31: every RoundResult appended by nextTurn or by a surrender has a
\* winner, and that winner is one of the game's players, also when nextTurn
\* is pressed while only the host is present.
AppendedRoundHasWinner ==
    [][\A c \in Pair :
        ((TurnAdvanced(c) \/ Surrender(c))
            /\ Len(Issued(c).rounds) = Len(local[c].rounds) + 1) =>
            HasPlayer(Issued(c), LastRound(Issued(c)).winner)]_vars

\* C32: a createGame whose write succeeds stores a game with the host as
\* its only player (morale 50, energy 0, maxEnergyThisTurn 0, isHost true),
\* currentTurn 1, currentRound 1, the host holding priority, status 'setup'
\* and no rounds, and the creator's local state holds the same game.
CreateContract ==
    [][\A c \in Users :
        (CreateDone(c) /\ serverTime' # serverTime) =>
            LET code == Head(queue[c]).code
                doc == games'[code]
            IN /\ doc # NoDoc
               /\ Len(doc.players) = 1
               /\ doc.players[1].id = c
               /\ doc.players[1].morale = 50
               /\ doc.players[1].energy = 0
               /\ doc.players[1].maxEnergyThisTurn = 0
               /\ doc.players[1].isHost = TRUE
               /\ doc.currentTurn = 1
               /\ doc.currentRound = 1
               /\ doc.priorityPlayerId = c
               /\ doc.gameStatus = "setup"
               /\ doc.rounds = <<>>
               /\ doc.gameCode = code
               /\ local'[c] # Null
               /\ GameFields(local'[c]) = GameFields(doc)]_vars

\* a host has created a game and waits in it alone
HostWaiting ==
    \E c \in Users : \E code \in Codes :
        /\ games[code] # NoDoc
        /\ games[code].gameStatus = "setup"
        /\ PlayerIds(games[code]) = <<c>>
        /\ games[code].rounds = <<>>
        /\ local[c] # Null
        /\ GameFields(local[c]) = GameFields(games[code])
        /\ queue[c] = <<>>

\* C33: last writer wins without field mixing: after every step that changes
\* a game document, the document's game-state fields are, all together,
\* those of the state the write that just resolved carried.
DocumentIsLastWrite ==
    [][\A code \in Codes :
        (games'[code] # games[code]) =>
            \E c \in Users :
                /\ queue[c] # <<>>
                /\ queue'[c] = Tail(queue[c])
                /\ Head(queue[c]).code = code
                /\ GameFields(games'[code]) = GameFields(Head(queue[c]).gs)]_vars

MaxCollideActs == 2

\* h and g play the game with the only code there is, both have received
\* it, and no createGame of this behaviour has run yet
InitCollide ==
    /\ platform \in {"native", "web"}
    /\ \E first \in Pair :
        LET doc == ActiveDoc(platform, first)
        IN /\ games = [k \in Codes |-> IF k = 1 THEN doc ELSE NoDoc]
           /\ serverTime = doc.lastUpdated
           /\ local = [c \in Users |-> IF c \in Pair THEN [doc EXCEPT !.ref = 2] ELSE Null]
           /\ subs = [c \in Users |->
                IF c = "h"
                THEN [dep |-> 1, handle |-> 1,
                      listeners |-> {[lid |-> 1, code |-> 1,
                                      captured |-> [NewGame("h", 1) EXCEPT !.ref = 1],
                                      dirty |-> FALSE]}]
                ELSE IF c = "g"
                THEN [dep |-> 1, handle |-> 1,
                      listeners |-> {[lid |-> 1, code |-> 1,
                                      captured |-> [JoinedGame(CreateDoc(NewGame("h", 1), 1), "g", first)
                                                        EXCEPT !.ref = 1],
                                      dirty |-> FALSE]}]
                ELSE [dep |-> 0, handle |-> 0, listeners |-> {}]]
    /\ matches = {}
    /\ queue = [c \in Users |-> <<>>]
    /\ left = MaxCollideActs
    /\ creates = 0
    /\ fails = 0

\* a third identity creates a game while the two play
CollideStep(c) ==
    \/ CreateGame(c)
    \/ CreateDone(c)
    \/ \E amount \in MoraleDeltas : AdjustValue(c, c, "morale", amount)
    \/ WriteDone(c)
    \/ Deliver(c)

NextCollide == \E c \in Users : CollideStep(c)

SpecCollide == InitCollide /\ [][NextCollide]_vars

\* C35: createGame never replaces an existing game: when a document already
\* exists under the generated code, the create write leaves that document's
\* players, status, rounds and counters as they are.
CreateKeepsExistingGame ==
    [][\A c \in Users :
        (CreateDone(c) /\ games[Head(queue[c]).code] # NoDoc) =>
            GameFields(games'[Head(queue[c]).code]) =
                GameFields(games[Head(queue[c]).code])]_vars

\* ------------------------------------------------- one operation at a time

\* a handler is invoked only when every earlier write has resolved and every
\* snapshot has been delivered
SeqStep(c) ==
    \/ Quiescent /\ CreateGame(c)
    \/ Quiescent /\ JoinGame(c)
    \/ Quiescent /\ \E amount \in MoraleDeltas : AdjustValue(c, c, "morale", amount)
    \/ Quiescent /\ NextTurn(c)
    \/ Quiescent /\ NextTurnMatchEnd(c)
    \/ Quiescent /\ SurrenderAlone(c)
    \/ Quiescent /\ Surrender(c)
    \/ CreateDone(c)
    \/ JoinRead(c)
    \/ JoinWriteDone(c)
    \/ ReconnectDone(c)
    \/ TurnSaveDone(c)
    \/ WriteDone(c)
    \/ SurrenderSaveDone(c)
    \/ SurrenderWriteDone(c)
    \/ Deliver(c)

NextSeq == \E c \in Pair : SeqStep(c)

\* from the lobby, from a game the host waits in alone, or from a position of
\* play
InitSeq == InitLobby \/ InitLone \/ InitTurn

SpecSeq == InitSeq /\ [][NextSeq]_vars

\* rounds[i].roundNumber = i + 1 for every 0-based index i, and while the
\* status is 'active' currentRound = rounds.length + 1
RoundsInStep(gs) ==
    /\ \A k \in 1..Len(gs.rounds) : gs.rounds[k].roundNumber = k
    /\ gs.gameStatus = "active" => gs.currentRound = Len(gs.rounds) + 1

\* C36: with create, join, adjustCounter, nextTurn and surrender applied one
\* after another, between any two of them the document and every local copy
\* have their rounds numbered 1, 2, ... and, while active, currentRound one
\* more than the number of rounds.
RoundsNumberedInOrder ==
    Quiescent =>
        /\ \A code \in Codes : games[code] # NoDoc => RoundsInStep(games[code])
        /\ \A c \in Users : local[c] # Null => RoundsInStep(local[c])

\* ------------------------------------------------------ energy over turns

\* both players in the active game, pressing +5 and -5 on the own energy and
\* Next Turn; no morale changes, so no round ends
RefillStep(c) ==
    \/ \E amount \in EnergyDeltas : AdjustValue(c, c, "energy", amount)
    \/ NextTurn(c)
    \/ WriteDone(c)
    \/ Deliver(c)

NextRefill == \E c \in Pair : RefillStep(c)

SpecRefill == InitPress /\ [][NextRefill]_vars

\* C37: over energy presses and turns no player's energy leaves
\* 0..maxEnergyThisTurn, and a nextTurn that ends no round never lowers a
\* player's energy: when the write of such a nextTurn lands, every player's
\* energy in the document is at least what it was before.
NextTurnKeepsEnergy ==
    [][\A c \in Pair :
        (/\ WriteDone(c)
         /\ games[Head(queue[c]).code] # NoDoc
         /\ games'[Head(queue[c]).code].currentRound = games[Head(queue[c]).code].currentRound
         /\ games'[Head(queue[c]).code].currentTurn = games[Head(queue[c]).code].currentTurn + 1) =>
            LET doc == games[Head(queue[c]).code]
                new == games'[Head(queue[c]).code]
            IN \A i \in 1..Len(doc.players) :
                /\ new.players[i].energy >= 0
                /\ new.players[i].energy <= new.players[i].maxEnergyThisTurn
                /\ new.players[i].energy >= doc.players[i].energy]_vars

\* the shape a MatchRecord of each winType is to have
RecordShaped(m) ==
    LET n == Len(m.rounds)
    IN /\ m.winType = "normal" =>
            /\ n = 2
            /\ \A k \in 1..n : m.rounds[k].endReason # "surrender"
            /\ \E i \in 1..Len(m.players) : m.players[i] = m.winner
            /\ \E k \in 1..n : m.rounds[k].winner = m.winner
       /\ m.winType = "surrender" =>
            /\ n \in {1, 2}
            /\ \A k \in 1..n : (m.rounds[k].endReason = "surrender") <=> (k = n)
            /\ m.winner = m.rounds[n].winner
       /\ m.winType = "incomplete" =>
            /\ n <= 1
            /\ m.winner = "incomplete"

\* C38: every persisted MatchRecord has the shape of its winType: 'normal'
\* has two rounds, none ended by surrender, and a winner who is a player and
\* won one of them; 'surrender' has one or two rounds, only the last ended by
\* surrender, and that round's winner as winner; 'incomplete' has at most one
\* round and winner 'incomplete'.
RecordsShaped == \A m \in matches : RecordShaped(m)

\* C39: when both players of a two-player game meet the same win condition
\* at nextTurn, join order alone decides the round: with both at morale <= 0
\* the second-joined player wins, with both at morale >= 100 (and none
\* <= 0) the first-joined player wins, whatever the two morale values and
\* whoever holds priority.
JoinOrderDecides ==
    [][\A c \in Pair :
        (TurnAdvanced(c) /\ Len(local[c].players) = 2) =>
            LET gs == local[c]
            IN /\ Lows(gs) = {1, 2} =>
                    LastRound(Issued(c)).winner = gs.players[2].id
               /\ (Highs(gs) = {1, 2} /\ Lows(gs) = {}) =>
                    LastRound(Issued(c)).winner = gs.players[1].id]_vars

\* a nextTurn has ended round 1 with both players at morale <= 0, the
\* second-joined player further down, and the stored round has the
\* second-joined player as its winner
BothLowSeen ==
    \E k \in 1..Len(games[1].rounds) :
        LET r == games[1].rounds[k]
        IN /\ r.playerMorale[1].morale = 0
           /\ r.playerMorale[2].morale < 0
           /\ r.winner = r.playerMorale[2].id
           /\ r.endReason = "morale_0_or_below"
           /\ r.endTurn > 0
           /\ games[1].currentRound = 2
           /\ k = 1
           /\ \A i \in 1..2 : games[1].players[i].maxEnergyThisTurn = 0
====
